---- MODULE Spec2Model ----
(***************************************************************************)
(* A model of ClubManagementSystem (src/business_logic.py): the user,     *)
(* club and event collections of the document store, and one action per   *)
(* public operation.                                                       *)
(*                                                                         *)
(* Conventions.                                                            *)
(*  - A collection is a sequence of documents; the _id of a document is   *)
(*    its position (insert_one appends).  ObjectId(s) and str(oid) are    *)
(*    bson's conversions between the two spellings of one id (the module  *)
(*    uses ObjectId without importing it; it is taken to be               *)
(*    bson.ObjectId), so an id is one integer here.  Id 0 is a            *)
(*    well-formed id that no document has.                                 *)
(*  - A dict argument is a record whose "fields" set holds the keys that  *)
(*    are present.                                                         *)
(*  - Every handler is an operator from the store (db) and the arguments  *)
(*    to an outcome: the store after the call, the returned (flag,        *)
(*    payload), whether an exception left the handler, the notification   *)
(*    handed to redis.publish and the number of store calls issued.       *)
(*    "fail" is the number of the store call that raises (0: none) and    *)
(*    "pub" tells whether redis.publish succeeds.                          *)
(*  - The state is what outlives a call: the three collections and the    *)
(*    messages the notification channel has received.  What a call        *)
(*    returns is read off its handler's outcome.                           *)
(*  - Calls run to completion one at a time, except where concurrent      *)
(*    requests are studied: there a call is split at its store calls and  *)
(*    "inflight" holds the calls between two of them, each with what it   *)
(*    has read so far.                                                     *)
(***************************************************************************)
EXTENDS Integers, Sequences, FiniteSets, TLC

VARIABLES users, clubs, events, redis, inflight

vars == <<users, clubs, events, redis, inflight>>

\* ------------------------------------------------------------------ bounds
MaxClubs == 1
MaxEvents == 1
MaxMembers == 2
MaxRegistrations == 2
MaxRegistry == 2
MaxCalendar == 2
MaxTasks == 2

\* --------------------------------------------------------------- enums
STUDENT == "student"
FACULTY == "faculty"
ADMIN == "admin"

PENDING == "pending"
ACTIVE == "active"
REJECTED == "rejected"

EVENT_PENDING == "pending"
EVENT_APPROVED == "approved"
EventStatus == {"draft", EVENT_PENDING, EVENT_APPROVED, "rejected", "cancelled"}

UserRole == {STUDENT, FACULTY, ADMIN}
MembershipStatus == {PENDING, ACTIVE, REJECTED}

Absent == "absent"

\* ------------------------------------------------------------ outcomes
Db == [users |-> users, clubs |-> clubs, events |-> events]

NoNotification == <<>>

\* return True, {...}
Success(db, msg, data, note, n) ==
    [users |-> db.users, clubs |-> db.clubs, events |-> db.events,
     result |-> [ok |-> TRUE, msg |-> msg, cause |-> "", data |-> data],
     raised |-> FALSE, redis |-> note, calls |-> n]

\* return False, {"error": msg}
Failure(db, msg, n) ==
    [users |-> db.users, clubs |-> db.clubs, events |-> db.events,
     result |-> [ok |-> FALSE, msg |-> msg, cause |-> "", data |-> <<>>],
     raised |-> FALSE, redis |-> NoNotification, calls |-> n]

\* a handler whose try does not cover the exception: it leaves the handler
Caught_Propagates(db, prefix, cause, n) ==
    [users |-> db.users, clubs |-> db.clubs, events |-> db.events,
     result |-> [ok |-> FALSE, msg |-> prefix, cause |-> cause, data |-> <<>>],
     raised |-> TRUE, redis |-> <<>>, calls |-> n]

\* except Exception as e: return False, {"error": f"<prefix>: {str(e)}"}
Caught(db, prefix, cause, n) ==
    [users |-> db.users, clubs |-> db.clubs, events |-> db.events,
     result |-> [ok |-> FALSE, msg |-> prefix, cause |-> cause, data |-> <<>>],
     raised |-> FALSE, redis |-> NoNotification, calls |-> n]

\* a publish whose exception is not caught where it is raised
_publish_notification_Raising(channel, type, pub) ==
    [raised |-> ~pub,
     note |-> <<[channel |-> channel, type |-> type, delivered |-> pub]>>]

\* self.redis.publish inside try/except: the exception is printed and dropped,
\* so nothing is raised into the caller whether or not the message got through
_publish_notification(channel, type, pub) ==
    [raised |-> FALSE,
     note |-> <<[channel |-> channel, type |-> type, delivered |-> pub]>>]

\* self._publish_notification(...) followed by return True, {...}, both inside
\* the handler's try
Notified(db, msg, data, channel, type, pub, prefix, n) ==
    LET p == _publish_notification(channel, type, pub)
    IN  IF p.raised THEN Caught(db, prefix, "RedisError", n)
        ELSE Success(db, msg, data, p.note, n)

\* --------------------------------------------------------- store lookups
Range(s) == {s[i] : i \in 1..Len(s)}

Min(S) == CHOOSE x \in S : \A y \in S : x <= y

Max(S) == CHOOSE x \in S : \A y \in S : x >= y

\* find_one: the first matching document, 0 for None
FindUserByEmail(us, email) ==
    LET hits == {i \in 1..Len(us) : us[i].email = email}
    IN  IF hits = {} THEN 0 ELSE Min(hits)

\* the student-id lookup querying the email field
FindUserByStudentId_ByEmail(us, sid) == FindUserByEmail(us, sid)

FindUserByStudentId(us, sid) ==
    LET hits == {i \in 1..Len(us) : us[i].studentId = sid}
    IN  IF hits = {} THEN 0 ELSE Min(hits)

FindById(coll, id) == IF id \in 1..Len(coll) THEN id ELSE 0

\* ------------------------------------------------------- user management
Salts == {"salt"}

\* bcrypt.hashpw(password, salt) and bcrypt.checkpw(password, hashed)
hashpw(password, salt) == [salt |-> salt, digest |-> <<salt, password>>]

\* a verification that compares the salt and not the digest
checkpw_SaltOnly(password, hashed) == hashpw(password, hashed.salt).salt = hashed.salt

checkpw(password, hashed) == hashpw(password, hashed.salt) = hashed

_generate_token(id, user) == [id |-> id, email |-> user.email, role |-> user.role]

UserRequired == {"name", "email", "password", "role"}

register_user(db, user_data, salt, fail) ==
    IF ~(UserRequired \subseteq user_data.fields)
    THEN Failure(db, "Missing required fields", 0)
    ELSE IF fail = 1 THEN Caught(db, "Registration failed", "StoreError", 1)
    ELSE IF FindUserByEmail(db.users, user_data.email) # 0
    THEN Failure(db, "Email already exists", 1)
    ELSE LET student == user_data.role = STUDENT
             n == IF student THEN 3 ELSE 2
             user == [email |-> user_data.email,
                      password |-> hashpw(user_data.password, salt),
                      role |-> user_data.role,
                      isActive |-> TRUE,
                      studentId |-> IF student THEN user_data.studentId ELSE Absent,
                      clubs |-> <<>>]
             id == Len(db.users) + 1
         IN  IF student /\ ~({"studentId", "year"} \subseteq user_data.fields)
             THEN Failure(db, "Student ID and year required for students", 1)
             ELSE IF student /\ fail = 2
             THEN Caught(db, "Registration failed", "StoreError", 2)
             ELSE IF student /\ FindUserByStudentId(db.users, user_data.studentId) # 0
             THEN Failure(db, "Student ID already exists", 2)
             ELSE IF fail = n
             THEN Caught(db, "Registration failed", "StoreError", n)
             ELSE Success([db EXCEPT !.users = Append(db.users, user)],
                          "User registered successfully",
                          <<_generate_token(id, user)>>, NoNotification, n)

login_user(db, credentials, fail) ==
    IF ~({"email"} \subseteq credentials.fields)
    THEN Caught(db, "Login failed", "KeyError", 0)
    ELSE IF fail = 1 THEN Caught(db, "Login failed", "StoreError", 1)
    ELSE LET id == FindUserByEmail(db.users, credentials.email)
         IN  IF id = 0 \/ ~db.users[id].isActive
             THEN Failure(db, "Invalid credentials", 1)
             ELSE IF ~({"password"} \subseteq credentials.fields)
             THEN Caught(db, "Login failed", "KeyError", 1)
             ELSE IF ~checkpw(credentials.password, db.users[id].password)
             THEN Failure(db, "Invalid credentials", 1)
             ELSE Success(db, "Login successful",
                          <<_generate_token(id, db.users[id])>>, NoNotification, 1)

\* populated club references of get_user_profile; a reference whose club is
\* gone is skipped
PopulateClubs(cs, refs) ==
    LET keep(ref) == FindById(cs, ref.clubId) # 0
        kept == SelectSeq(refs, keep)
    IN  [i \in 1..Len(kept) |->
            [clubId |-> kept[i].clubId, name |-> cs[kept[i].clubId].name,
             role |-> kept[i].role]]

get_user_profile(db, user_id, fail) ==
    IF fail = 1 THEN Caught(db, "Failed to get profile", "StoreError", 1)
    ELSE LET id == FindById(db.users, user_id)
         IN  IF id = 0 THEN Failure(db, "User not found", 1)
             ELSE LET refs == db.users[id].clubs
                      n == 1 + Len(refs)
                  IN  IF fail \in 2..n
                      THEN Caught(db, "Failed to get profile", "StoreError", fail)
                      ELSE Success(db, "", <<[id |-> id, email |-> db.users[id].email,
                                              clubs |-> PopulateClubs(db.clubs, refs)]>>,
                                   NoNotification, n)

\* ------------------------------------------------------- club management
Privileged == {FACULTY, ADMIN}

Officers == {"president", "vice-president", "secretary"}

ClubRequired == {"name", "description", "category", "mission", "vision"}

\* the name lookup querying the category field
FindClubByName_ByCategory(cs, name) ==
    LET hits == {i \in 1..Len(cs) : cs[i].category = name}
    IN  IF hits = {} THEN 0 ELSE Min(hits)

FindClubByName(cs, name) ==
    LET hits == {i \in 1..Len(cs) : cs[i].name = name}
    IN  IF hits = {} THEN 0 ELSE Min(hits)

\* a membership test that overlooks the requests still pending
HasMember_ActiveOnly(club, user_id) ==
    \E i \in 1..Len(club.members) :
        club.members[i].userId = user_id /\ club.members[i].status = ACTIVE

\* for member in club['members']: if str(member['userId']) == user_id
HasMember(club, user_id) ==
    \E i \in 1..Len(club.members) : club.members[i].userId = user_id

create_club(db, club_data, creator_id, fail, pub) ==
    IF fail = 1 THEN Caught(db, "Failed to create club", "StoreError", 1)
    ELSE LET creator == FindById(db.users, creator_id)
             club == [name |-> club_data.name,
                      category |-> club_data.category,
                      facultyCoordinator |-> creator_id,
                      isActive |-> TRUE,
                      members |-> <<>>,
                      events |-> <<>>]
             id == Len(db.clubs) + 1
         IN  IF creator = 0 \/ db.users[creator].role \notin Privileged
             THEN Failure(db, "Unauthorized to create clubs", 1)
             ELSE IF ~(ClubRequired \subseteq club_data.fields)
             THEN Failure(db, "Missing required fields", 1)
             ELSE IF fail = 2 THEN Caught(db, "Failed to create club", "StoreError", 2)
             ELSE IF FindClubByName(db.clubs, club_data.name) # 0
             THEN Failure(db, "Club name already exists", 2)
             ELSE IF fail = 3 THEN Caught(db, "Failed to create club", "StoreError", 3)
             ELSE Notified([db EXCEPT !.clubs = Append(db.clubs, club)],
                           "Club created successfully", <<id>>,
                           "club-updates", "club-created", pub,
                           "Failed to create club", 3)

\* a reference pushed under the user's id in place of the club's
PushUserClub_UserId(us, user_id, ref) ==
    IF FindById(us, user_id) = 0 THEN us
    ELSE [us EXCEPT ![user_id].clubs = Append(@, [ref EXCEPT !.clubId = user_id])]

\* users.update_one({"_id": user_id}, {"$push": {"clubs": ref}}): no match, no change
PushUserClub(us, user_id, ref) ==
    IF FindById(us, user_id) = 0 THEN us
    ELSE [us EXCEPT ![user_id].clubs = Append(@, ref)]

\* a membership that is active from the moment of the request
NewMembership_Active(user_id) ==
    [userId |-> user_id, role |-> "member", status |-> ACTIVE]

\* a request that enters the club as its president
NewMembership_President(user_id) ==
    [userId |-> user_id, role |-> "president", status |-> PENDING]

\* the membership request join_club appends
NewMembership(user_id) == [userId |-> user_id, role |-> "member", status |-> PENDING]

join_club(db, club_id, user_id, fail, pub) ==
    IF fail = 1 THEN Caught(db, "Failed to join club", "StoreError", 1)
    ELSE LET cid == FindById(db.clubs, club_id)
         IN  IF cid = 0 \/ ~db.clubs[cid].isActive
             THEN Failure(db, "Club not found", 1)
             ELSE IF HasMember(db.clubs[cid], user_id)
             THEN Failure(db, "Already a member of this club", 1)
             ELSE IF fail = 2 THEN Caught(db, "Failed to join club", "StoreError", 2)
             ELSE LET membership == NewMembership(user_id)
                      db2 == [db EXCEPT !.clubs[cid].members = Append(@, membership)]
                      db3 == [db2 EXCEPT !.users =
                                 PushUserClub(@, user_id,
                                              [clubId |-> club_id, role |-> "member"])]
                  IN  IF fail = 3 THEN Caught(db2, "Failed to join club", "StoreError", 3)
                      ELSE IF fail = 4
                      THEN Caught(db3, "Failed to join club", "StoreError", 4)
                      ELSE IF FindById(db3.users, user_id) = 0
                      THEN \* user is None: user['name'] raises TypeError
                           Caught(db3, "Failed to join club", "TypeError", 4)
                      ELSE Notified(db3, "Membership request sent successfully", <<>>,
                                    "club-updates", "membership-request", pub,
                                    "Failed to join club", 4)

\* an officer test that does not look at the membership's status
_can_approve_membership_AnyStatus(us, club, user_id) ==
    LET user == FindById(us, user_id)
    IN  IF user # 0 /\ us[user].role \in {FACULTY, ADMIN} THEN TRUE
        ELSE \E i \in 1..Len(club.members) :
                /\ club.members[i].userId = user_id
                /\ club.members[i].role \in {"president", "vice-president", "secretary"}

_can_approve_membership(us, club, user_id) ==
    LET user == FindById(us, user_id)
    IN  IF user # 0 /\ us[user].role \in Privileged THEN TRUE
        ELSE \E i \in 1..Len(club.members) :
                /\ club.members[i].userId = user_id
                /\ club.members[i].status = ACTIVE
                /\ club.members[i].role \in Officers

\* the first membership of member_id, 0 when the loop finds none
FirstMember(club, member_id) ==
    LET hits == {i \in 1..Len(club.members) : club.members[i].userId = member_id}
    IN  IF hits = {} THEN 0 ELSE Min(hits)

\* an approval that adds an active membership beside the request
SetActive_Append(club, m) ==
    [club EXCEPT !.members = Append(@, [club.members[m] EXCEPT !.status = ACTIVE])]

\* member['status'] = MembershipStatus.ACTIVE.value, on the document read
SetActive(club, m) == [club EXCEPT !.members[m].status = ACTIVE]

\* an update of the memberships read that keeps what was appended since
ReplaceOne_KeepAppended(cs, club_id, club) ==
    [cs EXCEPT ![club_id] =
        [@ EXCEPT !.members =
            [i \in 1..Len(@) |->
                IF i <= Len(club.members) THEN club.members[i] ELSE @[i]]]]

\* clubs.replace_one({"_id": club_id}, club): the stored document becomes the
\* one given
ReplaceOne(cs, club_id, club) == [cs EXCEPT ![club_id] = club]

approve_membership(db, club_id, member_id, approver_id, fail) ==
    IF fail = 1 THEN Caught(db, "Failed to approve membership", "StoreError", 1)
    ELSE LET cid == FindById(db.clubs, club_id)
         IN  IF cid = 0 THEN Failure(db, "Club not found", 1)
             ELSE IF fail = 2
             THEN Caught(db, "Failed to approve membership", "StoreError", 2)
             ELSE IF ~_can_approve_membership(db.users, db.clubs[cid], approver_id)
             THEN Failure(db, "Insufficient permissions", 2)
             ELSE LET m == FirstMember(db.clubs[cid], member_id)
                      club == SetActive(db.clubs[cid], m)
                  IN  IF m = 0 THEN Failure(db, "Member not found", 2)
                      ELSE IF fail = 3
                      THEN Caught(db, "Failed to approve membership", "StoreError", 3)
                      ELSE \* replace_one writes the whole document read above
                           Success([db EXCEPT !.clubs = ReplaceOne(@, cid, club)],
                                   "Membership approved successfully", <<>>,
                                   NoNotification, 3)

\* the ids of the documents of a collection, in the order find() yields them
Cursor(coll) == [i \in 1..Len(coll) |-> i]

get_clubs(db, filters, fail) ==
    IF fail = 1 THEN Caught(db, "Failed to get clubs", "StoreError", 1)
    ELSE LET query(club) ==
                 /\ club.isActive
                 /\ ("category" \in filters.fields /\ filters.category # "all"
                        => club.category = filters.category)
             hit(i) == query(db.clubs[i])
         IN  Success(db, "", <<SelectSeq(Cursor(db.clubs), hit)>>, NoNotification, 1)

\* ------------------------------------------------------ event management
EventRequired == {"title", "description", "clubId", "eventType", "venue", "date",
                  "startTime", "endTime"}

\* an event-creation test that asks for an officer, as the approval test does
_can_create_event_OfficersOnly(us, club, user_id) ==
    LET user == FindById(us, user_id)
    IN  IF user # 0 /\ us[user].role \in {FACULTY, ADMIN} THEN TRUE
        ELSE \E i \in 1..Len(club.members) :
                /\ club.members[i].userId = user_id
                /\ club.members[i].status = ACTIVE
                /\ club.members[i].role \in {"president", "vice-president", "secretary"}

_can_create_event(us, club, user_id) ==
    LET user == FindById(us, user_id)
    IN  IF user # 0 /\ us[user].role \in Privileged THEN TRUE
        ELSE \E i \in 1..Len(club.members) :
                /\ club.members[i].userId = user_id
                /\ club.members[i].status = ACTIVE

\* event_data.get(key, 0)
GetOr0(doc, key, value) == IF key \in doc.fields THEN value ELSE 0

\* an update that pushes the club's id where the event's belongs
PushClubEvent_ClubId(cs, club_id, event_id) ==
    [cs EXCEPT ![club_id].events = Append(@, club_id)]

\* clubs.update_one({"_id": club_id}, {"$push": {"events": event_id}})
PushClubEvent(cs, club_id, event_id) ==
    [cs EXCEPT ![club_id].events = Append(@, event_id)]

create_event(db, event_data, creator_id, fail, pub) ==
    IF ~(EventRequired \subseteq event_data.fields)
    THEN Failure(db, "Missing required fields", 0)
    ELSE IF fail = 1 THEN Caught(db, "Failed to create event", "StoreError", 1)
    ELSE LET cid == FindById(db.clubs, event_data.clubId)
             event == [clubId |-> event_data.clubId,
                       organizer |-> creator_id,
                       maxParticipants |->
                           GetOr0(event_data, "maxParticipants",
                                  event_data.maxParticipants),
                       budget |-> [requested |->
                                       GetOr0(event_data, "budget", event_data.budget),
                                   approved |-> 0],
                       status |-> EVENT_PENDING,
                       registeredParticipants |-> <<>>,
                       approvedBy |-> <<>>,
                       approvalNotes |-> Absent]
             id == Len(db.events) + 1
             db3 == [db EXCEPT !.events = Append(@, event)]
             db4 == [db3 EXCEPT !.clubs = PushClubEvent(@, cid, id)]
         IN  IF cid = 0 \/ ~db.clubs[cid].isActive
             THEN Failure(db, "Club not found", 1)
             ELSE IF fail = 2 THEN Caught(db, "Failed to create event", "StoreError", 2)
             ELSE IF ~_can_create_event(db.users, db.clubs[cid], creator_id)
             THEN Failure(db, "Not authorized to create events for this club", 2)
             ELSE IF ~event_data.dateParses
             THEN \* datetime.strptime raises ValueError
                  Caught(db, "Failed to create event", "ValueError", 2)
             ELSE IF fail = 3 THEN Caught(db, "Failed to create event", "StoreError", 3)
             ELSE IF fail = 4 THEN Caught(db3, "Failed to create event", "StoreError", 4)
             ELSE IF fail = 5 THEN Caught(db4, "Failed to create event", "StoreError", 5)
             ELSE IF FindById(db4.users, creator_id) = 0
             THEN \* creator is None: creator['name'] raises TypeError
                  Caught(db4, "Failed to create event", "TypeError", 5)
             ELSE Notified(db4, "Event created successfully", <<id>>,
                           "event-updates", "event-created", pub,
                           "Failed to create event", 5)

\* a duplicate check that also turns away whoever asks before the approval
IsRegistered_OrUnapproved(event, user_id) ==
    \/ event.status # EVENT_APPROVED
    \/ \E i \in 1..Len(event.registeredParticipants) :
           event.registeredParticipants[i].userId = user_id

IsRegistered(event, user_id) ==
    \E i \in 1..Len(event.registeredParticipants) :
        event.registeredParticipants[i].userId = user_id

\* a capacity test that lets one participant too many in
IsFull_OffByOne(event) ==
    /\ event.maxParticipants > 0
    /\ Len(event.registeredParticipants) > event.maxParticipants

IsFull(event) ==
    /\ event.maxParticipants > 0
    /\ Len(event.registeredParticipants) >= event.maxParticipants

\* events.update_one({"_id": event_id},
\*                   {"$push": {"registeredParticipants": registration}})
PushRegistration(es, event_id, user_id) ==
    [es EXCEPT ![event_id].registeredParticipants = Append(@, [userId |-> user_id])]

register_for_event(db, event_id, user_id, fail) ==
    IF fail = 1 THEN Caught(db, "Failed to register for event", "StoreError", 1)
    ELSE LET eid == FindById(db.events, event_id)
         IN  IF eid = 0 THEN Failure(db, "Event not found", 1)
             ELSE IF IsRegistered(db.events[eid], user_id)
             THEN Failure(db, "Already registered for this event", 1)
             ELSE IF IsFull(db.events[eid])
             THEN Failure(db, "Event is full", 1)
             ELSE IF fail = 2
             THEN Caught(db, "Failed to register for event", "StoreError", 2)
             ELSE Success([db EXCEPT !.events = PushRegistration(@, eid, user_id)],
                          "Successfully registered for event", <<>>, NoNotification, 2)

\* an approver test that forgets the role
CanApproveEvent_AnyUser(us, approver_id) == FindById(us, approver_id) # 0

\* approver and approver['role'] in [FACULTY, ADMIN]
CanApproveEvent(us, approver_id) ==
    LET approver == FindById(us, approver_id)
    IN  approver # 0 /\ us[approver].role \in Privileged

approve_event(db, event_id, approver_data, approver_id, fail, pub) ==
    IF fail = 1 THEN Caught(db, "Failed to approve event", "StoreError", 1)
    ELSE LET eid == FindById(db.events, event_id)
             db3 == [db EXCEPT
                       !.events[eid].status = EVENT_APPROVED,
                       !.events[eid].approvedBy = <<approver_id>>,
                       !.events[eid].approvalNotes =
                           IF "approvalNotes" \in approver_data.fields
                           THEN approver_data.approvalNotes ELSE "",
                       !.events[eid].budget.approved =
                           GetOr0(approver_data, "approvedBudget",
                                  approver_data.approvedBudget)]
         IN  IF ~CanApproveEvent(db.users, approver_id)
             THEN Failure(db, "Unauthorized to approve events", 1)
             ELSE IF fail = 2 THEN Caught(db, "Failed to approve event", "StoreError", 2)
             ELSE IF eid = 0 THEN Failure(db, "Event not found", 2)
             ELSE IF fail = 3 THEN Caught(db, "Failed to approve event", "StoreError", 3)
             ELSE IF fail = 4 THEN Caught(db3, "Failed to approve event", "StoreError", 4)
             ELSE IF FindById(db3.clubs, db.events[eid].clubId) = 0
             THEN \* club is None: club['name'] raises TypeError
                  Caught(db3, "Failed to approve event", "TypeError", 4)
             ELSE Notified(db3, "Event approved successfully", <<>>,
                           "event-updates", "event-approved", pub,
                           "Failed to approve event", 4)

get_events(db, filters, fail) ==
    IF fail = 1 THEN Caught(db, "Failed to get events", "StoreError", 1)
    ELSE LET query(event) ==
                 /\ ("status" \in filters.fields => event.status = filters.status)
                 /\ ("clubId" \in filters.fields => event.clubId = filters.clubId)
             hit(i) == query(db.events[i])
         IN  Success(db, "", <<SelectSeq(Cursor(db.events), hit)>>, NoNotification, 1)

\* ---------------------------------------------------- dashboard operations
\* events.count_documents() is called without its filter argument: the call
\* raises TypeError before it reaches the store
get_dashboard_stats(db, fail) ==
    IF fail \in {1, 2} THEN Caught(db, "Failed to get stats", "StoreError", fail)
    ELSE Caught(db, "Failed to get stats", "TypeError", 2)

\* the pending memberships of clubs i..Len(cs), club by club, member by member
RECURSIVE PendingMemberships(_, _)
PendingMemberships(cs, i) ==
    IF i > Len(cs) THEN <<>>
    ELSE LET pending(member) == member.status = PENDING
             ms == SelectSeq(cs[i].members, pending)
         IN  [k \in 1..Len(ms) |-> [clubId |-> i, userId |-> ms[k].userId]]
                 \o PendingMemberships(cs, i + 1)

get_pending_approvals(db, fail) ==
    LET pendingEvent(i) == db.events[i].status = EVENT_PENDING
        all == PendingMemberships(db.clubs, 1)
        known(p) == FindById(db.users, p.userId) # 0
        n == 2 + Len(all)
    IN  IF fail \in 1..n
        THEN Caught(db, "Failed to get pending approvals", "StoreError", fail)
        ELSE Success(db, "", <<[pendingEvents |-> SelectSeq(Cursor(db.events), pendingEvent),
                                pendingMemberships |-> SelectSeq(all, known)]>>,
                     NoNotification, n)

\* ------------------------------------------------------------------ inputs
StudentFields == UserRequired \cup {"studentId", "year", "department"}

UserDoc(fields, email, role, studentId) ==
    [fields |-> fields, email |-> email, password |-> "pw", role |-> role,
     studentId |-> studentId]

StudentA == UserDoc(StudentFields, "a@kmit.in", STUDENT, "s1")
StudentB == UserDoc(StudentFields, "b@kmit.in", STUDENT, "s2")
FacultyF == UserDoc(UserRequired, "f@kmit.in", FACULTY, Absent)

\* the registrations of the specifications that go on to clubs and events
FewUserDocs == {StudentA, StudentB, FacultyF}

FewCredentials == {[fields |-> {"email", "password"}, email |-> "a@kmit.in",
                    password |-> "pw"]}

\* the registrations of the specification of the user store alone
UserDocs ==
    FewUserDocs \cup
    { UserDoc(StudentFields, "b@kmit.in", STUDENT, "s1"),
      UserDoc(StudentFields, "c@kmit.in", STUDENT, "s2"),
      UserDoc(UserRequired, "a@kmit.in", STUDENT, Absent),
      UserDoc(UserRequired, "f@kmit.in", ADMIN, Absent),
      UserDoc(UserRequired, "c@kmit.in", "guest", Absent),
      UserDoc({"email", "role"}, "a@kmit.in", STUDENT, Absent) }

Login(fields, email, password) ==
    [fields |-> fields, email |-> email, password |-> password]

Credentials ==
    { Login({"email", "password"}, e, p) :
          e \in {"a@kmit.in", "f@kmit.in"}, p \in {"pw", "bad"} }
    \cup {Login({"email", "password"}, "z@kmit.in", "pw"),
          Login({"email"}, "a@kmit.in", Absent), Login({}, Absent, Absent)}

ClubDoc(fields, name, category) ==
    [fields |-> fields, name |-> name, category |-> category]

Coding == ClubDoc(ClubRequired, "Coding", "technical")

ClubDocs ==
    { Coding,
      ClubDoc(ClubRequired, "Robotics", "cultural"),
      ClubDoc({"name"}, "Coding", Absent) }

ClubFilters ==
    { [fields |-> {}, category |-> Absent],
      [fields |-> {"category"}, category |-> "all"],
      [fields |-> {"category"}, category |-> "technical"] }

EventDoc(fields, clubId, maxParticipants, dateParses) ==
    [fields |-> fields, clubId |-> clubId, maxParticipants |-> maxParticipants,
     budget |-> 0, dateParses |-> dateParses]

\* an event without a capacity and one for a single participant
FewEventDocs(cs) ==
    { EventDoc(EventRequired, c, 0, TRUE) : c \in cs }
    \cup { EventDoc(EventRequired \cup {"maxParticipants"}, c, 1, TRUE) : c \in cs }

\* an event for a single participant
CapacityOne == { EventDoc(EventRequired \cup {"maxParticipants"}, 0, 1, TRUE) }

EventDocs(cs) ==
    FewEventDocs(cs)
    \cup { EventDoc(EventRequired \cup {"maxParticipants"}, c, 2, TRUE) : c \in cs }
    \cup { EventDoc(EventRequired, c, 0, FALSE) : c \in cs }
    \cup { EventDoc({"title", "clubId"}, c, 0, TRUE) : c \in cs }

EventFilters ==
    { [fields |-> {}, status |-> Absent, clubId |-> 0],
      [fields |-> {"status"}, status |-> EVENT_APPROVED, clubId |-> 0],
      [fields |-> {"clubId"}, status |-> Absent, clubId |-> 1] }

Approval(fields, approvalNotes, approvedBudget) ==
    [fields |-> fields, approvalNotes |-> approvalNotes,
     approvedBudget |-> approvedBudget]

Granted == Approval({"approvalNotes", "approvedBudget"}, "ok", 500)

ApproverData == {Approval({}, Absent, 0), Granted}

\* the ids a caller may pass: those of the stored documents and one of none
Ids(coll) == 0..Len(coll)

\* ------------------------------------------------------------ the machine
Init ==
    /\ users = <<>>
    /\ clubs = <<>>
    /\ events = <<>>
    /\ redis = {}
    /\ inflight = {}

\* the collections the model explores are capped; the code has no such limit
WithinBounds(out) ==
    /\ Len(out.clubs) <= Max({MaxClubs, MaxRegistry})
    /\ Len(out.events) <= Max({MaxEvents, MaxCalendar})
    /\ \A i \in 1..Len(out.clubs) : Len(out.clubs[i].members) <= MaxMembers
    /\ \A i \in 1..Len(out.users) : Len(out.users[i].clubs) <= MaxMembers
    /\ \A i \in 1..Len(out.events) :
           Len(out.events[i].registeredParticipants) <= MaxRegistrations

\* the messages of a notification that reach the channel
Delivered(note) ==
    {[channel |-> note[i].channel, type |-> note[i].type] :
         i \in {j \in 1..Len(note) : note[j].delivered}}

\* the call returns: its writes are in the store, its message on the channel
Return(out) ==
    /\ WithinBounds(out)
    /\ users' = out.users
    /\ clubs' = out.clubs
    /\ events' = out.events
    /\ redis' = redis \cup Delivered(out.redis)
    /\ UNCHANGED inflight

\* env.faults is the set of store calls that may raise (0: none), env.pubs
\* the outcomes of redis.publish, env.clubs and env.events the clubs and the
\* events the exploration admits
Reliable == [faults |-> {0}, pubs |-> {TRUE}, clubs |-> MaxClubs, events |-> MaxEvents]

RegisterUser(Docs, env) ==
    \E user_data \in Docs, salt \in Salts, fail \in env.faults :
        Return(register_user(Db, user_data, salt, fail))

LoginUser(Docs, env) ==
    \E credentials \in Docs, fail \in env.faults :
        Return(login_user(Db, credentials, fail))

GetUserProfile(env) ==
    \E user_id \in Ids(users), fail \in env.faults :
        Return(get_user_profile(Db, user_id, fail))

CreateClub(Docs, env) ==
    \E club_data \in Docs, creator_id \in Ids(users), fail \in env.faults,
       pub \in env.pubs :
        LET out == create_club(Db, club_data, creator_id, fail, pub)
        IN  Len(out.clubs) <= env.clubs /\ Return(out)

JoinClub(env) ==
    \E club_id \in Ids(clubs), user_id \in Ids(users), fail \in env.faults,
       pub \in env.pubs :
        Return(join_club(Db, club_id, user_id, fail, pub))

ApproveMembership(env) ==
    \E club_id \in Ids(clubs), member_id \in Ids(users), approver_id \in Ids(users),
       fail \in env.faults :
        Return(approve_membership(Db, club_id, member_id, approver_id, fail))

GetClubs(env) ==
    \E filters \in ClubFilters, fail \in env.faults :
        Return(get_clubs(Db, filters, fail))

CreateEvent(Docs, env) ==
    \E form \in Docs, club_id \in Ids(clubs), creator_id \in Ids(users),
       fail \in env.faults, pub \in env.pubs :
        LET out == create_event(Db, [form EXCEPT !.clubId = club_id], creator_id,
                                fail, pub)
        IN  Len(out.events) <= env.events /\ Return(out)

RegisterForEvent(env) ==
    \E event_id \in Ids(events), user_id \in Ids(users), fail \in env.faults :
        Return(register_for_event(Db, event_id, user_id, fail))

ApproveEvent(Docs, env) ==
    \E event_id \in Ids(events), approver_data \in Docs,
       approver_id \in Ids(users), fail \in env.faults, pub \in env.pubs :
        Return(approve_event(Db, event_id, approver_data, approver_id, fail, pub))

GetEvents(env) ==
    \E filters \in EventFilters, fail \in env.faults :
        Return(get_events(Db, filters, fail))

GetDashboardStats(env) ==
    \E fail \in env.faults : Return(get_dashboard_stats(Db, fail))

GetPendingApprovals(env) ==
    \E fail \in env.faults : Return(get_pending_approvals(Db, fail))

\* every operation, over a reliable store and a reliable channel
Next ==
    \/ RegisterUser(FewUserDocs, Reliable)
    \/ LoginUser(FewCredentials, Reliable)
    \/ GetUserProfile(Reliable)
    \/ CreateClub({Coding}, Reliable)
    \/ JoinClub(Reliable)
    \/ ApproveMembership(Reliable)
    \/ GetClubs(Reliable)
    \/ CreateEvent(FewEventDocs({0}), Reliable)
    \/ RegisterForEvent(Reliable)
    \/ ApproveEvent({Granted}, Reliable)
    \/ GetEvents(Reliable)
    \/ GetDashboardStats(Reliable)
    \/ GetPendingApprovals(Reliable)

Spec == Init /\ [][Next]_vars

\* a user document as register_user stores it
SeedUser(email, role) ==
    [email |-> email, password |-> hashpw("pw", "salt"), role |-> role,
     isActive |-> TRUE, studentId |-> IF role = STUDENT THEN "s1" ELSE Absent,
     clubs |-> <<>>]

\* the user store alone, over every kind of registration and login
NextUsers ==
    \/ RegisterUser(UserDocs, Reliable)
    \/ LoginUser(Credentials, Reliable)
    \/ GetUserProfile(Reliable)

SpecUsers == Init /\ [][NextUsers]_vars

\* the user store when it already holds an account that login reads as
\* active or as deactivated (no operation of the class clears isActive: the
\* flag is cleared on the store directly)
InitLogin ==
    /\ \E active \in BOOLEAN, role \in UserRole :
          users = <<[SeedUser("a@kmit.in", role) EXCEPT !.isActive = active]>>
    /\ clubs = <<>>
    /\ events = <<>>
    /\ redis = {}
    /\ inflight = {}

SpecLogin == InitLogin /\ [][NextUsers]_vars

\* the authorization policy over every club state: the store starts with one
\* user of any role, a faculty user and a club whose member list is any list
\* of at most MaxMembers memberships of the first user and of a user that is
\* not stored, in any in-club role and status
SeedMemberships ==
    [userId : {0, 1}, role : {"member"} \cup Officers, status : MembershipStatus]

SeedMembers ==
    UNION {[1..n -> SeedMemberships] : n \in 0..MaxMembers}

SeedClub(members) ==
    [name |-> "Coding", category |-> "technical", facultyCoordinator |-> 2,
     isActive |-> TRUE, members |-> members, events |-> <<>>]

InitPolicy ==
    /\ \E role \in UserRole :
          users = <<SeedUser("a@kmit.in", role), SeedUser("f@kmit.in", FACULTY)>>
    /\ \E members \in SeedMembers : clubs = <<SeedClub(members)>>
    /\ events = <<>>
    /\ redis = {}
    /\ inflight = {}

NextPolicy ==
    \/ ApproveMembership(Reliable)
    \/ CreateEvent(FewEventDocs({0}), Reliable)
    \/ ApproveEvent({Granted}, Reliable)

SpecPolicy == InitPolicy /\ [][NextPolicy]_vars

\* the club registry: several privileged and unprivileged users, and every
\* kind of club data, for up to MaxRegistry clubs
Registry == [faults |-> {0}, pubs |-> {TRUE}, clubs |-> MaxRegistry, events |-> MaxEvents]

AdminG == UserDoc(UserRequired, "g@kmit.in", ADMIN, Absent)

NextClubs ==
    \/ RegisterUser({FacultyF, AdminG, StudentA}, Registry)
    \/ CreateClub(ClubDocs, Registry)
    \/ GetClubs(Registry)

SpecClubs == Init /\ [][NextClubs]_vars

\* the event calendar: a faculty user and a student who is an active member
\* of the first club, a second club that is active or was disabled on the
\* store, and up to MaxCalendar events
Calendar == [faults |-> {0}, pubs |-> {TRUE}, clubs |-> MaxRegistry,
             events |-> MaxCalendar]

InitCalendar ==
    /\ users = <<SeedUser("f@kmit.in", FACULTY), SeedUser("a@kmit.in", STUDENT)>>
    /\ \E active \in BOOLEAN :
          clubs = <<SeedClub(<<[userId |-> 2, role |-> "member", status |-> ACTIVE]>>),
                    [SeedClub(<<>>) EXCEPT !.name = "Robotics", !.isActive = active,
                                           !.facultyCoordinator = 1]>>
    /\ events = <<>>
    /\ redis = {}
    /\ inflight = {}

NextCalendar ==
    \/ CreateEvent(FewEventDocs({0}), Calendar)
    \/ RegisterForEvent(Calendar)
    \/ ApproveEvent({Granted}, Calendar)
    \/ GetEvents(Calendar)

SpecCalendar == InitCalendar /\ [][NextCalendar]_vars

\* memberships: a faculty user and a student, neither of them in a club, two
\* empty clubs, and the calls that read or write members and club references
InitMembers ==
    /\ users = <<SeedUser("f@kmit.in", FACULTY), SeedUser("a@kmit.in", STUDENT)>>
    /\ clubs = <<[SeedClub(<<>>) EXCEPT !.facultyCoordinator = 1],
                 [SeedClub(<<>>) EXCEPT !.name = "Robotics", !.facultyCoordinator = 1]>>
    /\ events = <<>>
    /\ redis = {}
    /\ inflight = {}

NextMembers ==
    \/ JoinClub(Reliable)
    \/ ApproveMembership(Reliable)
    \/ GetUserProfile(Reliable)
    \/ CreateEvent(CapacityOne, Reliable)
    \/ RegisterForEvent(Reliable)
    \/ GetPendingApprovals(Reliable)

SpecMembers == InitMembers /\ [][NextMembers]_vars

\* concurrent requests.  approve_membership and register_for_event are split
\* at their store calls: the first step is the find_one and the checks made
\* on the document it returned, the second the write; any other call may run
\* in between.  A call whose checks refuse it returns within its first step
\* and is the complete call of ApproveMembership or RegisterForEvent.
FreeTasks == (1..MaxTasks) \ {t.task : t \in inflight}

\* club = self.db.clubs.find_one(...), the permission check and the member
\* loop, all on the document read
ApproveMembershipFind ==
    \E club_id \in Ids(clubs), member_id \in Ids(users), approver_id \in Ids(users) :
        /\ FreeTasks # {}
        /\ approve_membership(Db, club_id, member_id, approver_id, 0).result.ok
        /\ inflight' = inflight \cup
               {[task |-> Min(FreeTasks), op |-> "approve_membership",
                 id |-> club_id, user_id |-> member_id,
                 club |-> <<SetActive(clubs[club_id],
                                      FirstMember(clubs[club_id], member_id))>>]}
        /\ UNCHANGED <<users, clubs, events, redis>>

\* self.db.clubs.replace_one({"_id": ObjectId(club_id)}, club); return True
ApproveMembershipReplace ==
    \E t \in inflight :
        /\ t.op = "approve_membership"
        /\ clubs' = ReplaceOne(clubs, t.id, t.club[1])
        /\ inflight' = inflight \ {t}
        /\ UNCHANGED <<users, events, redis>>

\* event = self.db.events.find_one(...), the duplicate and the capacity check
\* on the document read
RegisterForEventFind ==
    \E event_id \in Ids(events), user_id \in Ids(users) :
        /\ FreeTasks # {}
        /\ register_for_event(Db, event_id, user_id, 0).result.ok
        /\ inflight' = inflight \cup
               {[task |-> Min(FreeTasks), op |-> "register_for_event",
                 id |-> event_id, user_id |-> user_id, club |-> <<>>]}
        /\ UNCHANGED <<users, clubs, events, redis>>

\* self.db.events.update_one(..., {"$push": ...}); return True
RegisterForEventPush ==
    \E t \in inflight :
        /\ t.op = "register_for_event"
        /\ Len(events[t.id].registeredParticipants) < MaxRegistrations
        /\ events' = PushRegistration(events, t.id, t.user_id)
        /\ inflight' = inflight \ {t}
        /\ UNCHANGED <<users, clubs, redis>>

\* a faculty user and two students, the first of whom has asked to join the
\* club
InitRace ==
    /\ users = <<SeedUser("f@kmit.in", FACULTY),
                 [SeedUser("a@kmit.in", STUDENT) EXCEPT
                     !.clubs = <<[clubId |-> 1, role |-> "member"]>>],
                 [SeedUser("b@kmit.in", STUDENT) EXCEPT !.studentId = "s2"]>>
    /\ clubs = <<SeedClub(<<NewMembership(2)>>)>>
    /\ events = <<>>
    /\ redis = {}
    /\ inflight = {}

\* approvals racing with the calls that append to the club
NextRace ==
    \/ ApproveMembershipFind
    \/ ApproveMembershipReplace
    \/ JoinClub(Reliable)
    \/ CreateEvent(CapacityOne, Reliable)

SpecRace == InitRace /\ [][NextRace]_vars

\* registrations racing for the one place of an event
NextRush ==
    \/ CreateEvent(FewEventDocs({0}), Reliable)
    \/ RegisterForEventFind
    \/ RegisterForEventPush

SpecRush == InitRace /\ [][NextRush]_vars

\* every operation, over a reliable store and a channel whose publish may raise
Lossy == [faults |-> {0}, pubs |-> BOOLEAN, clubs |-> MaxClubs, events |-> MaxEvents]

NextLossy ==
    \/ RegisterUser({FacultyF, StudentA}, Lossy)
    \/ LoginUser(FewCredentials, Lossy)
    \/ GetUserProfile(Lossy)
    \/ CreateClub({Coding}, Lossy)
    \/ JoinClub(Lossy)
    \/ ApproveMembership(Lossy)
    \/ GetClubs(Lossy)
    \/ CreateEvent(FewEventDocs({0}), Lossy)
    \/ RegisterForEvent(Lossy)
    \/ ApproveEvent({Granted}, Lossy)
    \/ GetEvents(Lossy)
    \/ GetDashboardStats(Lossy)
    \/ GetPendingApprovals(Lossy)

SpecLossy == Init /\ [][NextLossy]_vars

\* every operation, over a store any of whose calls may raise; a handler
\* issues at most five store calls, get_user_profile and
\* get_pending_approvals one more for each club reference or pending member
Unreliable == [faults |-> 0..5, pubs |-> {TRUE}, clubs |-> MaxClubs, events |-> MaxEvents]

NextFault ==
    \/ RegisterUser({FacultyF, StudentA}, Unreliable)
    \/ LoginUser(FewCredentials, Unreliable)
    \/ GetUserProfile(Unreliable)
    \/ CreateClub({Coding}, Unreliable)
    \/ JoinClub(Unreliable)
    \/ ApproveMembership(Unreliable)
    \/ GetClubs(Unreliable)
    \/ CreateEvent(CapacityOne, Unreliable)
    \/ RegisterForEvent(Unreliable)
    \/ ApproveEvent({Granted}, Unreliable)
    \/ GetEvents(Unreliable)
    \/ GetDashboardStats(Unreliable)
    \/ GetPendingApprovals(Unreliable)

SpecFault == Init /\ [][NextFault]_vars

\* ================================================================ claims
\* the store an outcome leaves behind
DbOf(out) == [users |-> out.users, clubs |-> out.clubs, events |-> out.events]

\* the memberships of user_id in a club, the registrations of user_id for an event
MembershipsOf(club, user_id) ==
    {i \in 1..Len(club.members) : club.members[i].userId = user_id}

RegistrationsOf(event, user_id) ==
    {i \in 1..Len(event.registeredParticipants) :
         event.registeredParticipants[i].userId = user_id}

Refused(out, msg) ==
    /\ ~out.raised
    /\ out.result = [ok |-> FALSE, msg |-> msg, cause |-> "", data |-> <<>>]

Accepted(out, msg) ==
    /\ ~out.raised
    /\ out.result.ok
    /\ out.result.msg = msg

ClubIds == 1..Len(clubs)
EventIds == 1..Len(events)
UserIds == 1..Len(users)

\* C1: a club's member list holds at most one Membership per user, whatever
\* its status, and join_club for a user who already has a Membership in the
\* club (pending or active) fails with "Already a member of this club" and
\* leaves the member list with exactly one entry for that user.
C1_OneMembershipPerUser ==
    \A c \in ClubIds :
        /\ \A u \in Ids(users) : Cardinality(MembershipsOf(clubs[c], u)) <= 1
        /\ \A u \in Ids(users) :
              MembershipsOf(clubs[c], u) # {} =>
                  LET out == join_club(Db, c, u, 0, TRUE)
                  IN  /\ Refused(out, "Already a member of this club")
                      /\ DbOf(out) = Db
                      /\ Cardinality(MembershipsOf(out.clubs[c], u)) = 1

\* a club with a pending and an active membership, each of which a second
\* join_club finds
C1_Witness ==
    \E c \in ClubIds : \E u, v \in UserIds :
        /\ \E i \in MembershipsOf(clubs[c], u) : clubs[c].members[i].status = PENDING
        /\ \E i \in MembershipsOf(clubs[c], v) : clubs[c].members[i].status = ACTIVE

\* C2: approve_membership by an authorized approver fails with "Member not
\* found" and changes nothing when the club has no Membership of the member;
\* otherwise it succeeds and makes that Membership active, changing nothing
\* else; and approving again changes nothing more (no entry added).
C2_ApproveMembership ==
    \A c \in ClubIds : \A m, a \in Ids(users) :
        _can_approve_membership(users, clubs[c], a) =>
            LET out == approve_membership(Db, c, m, a, 0)
                again == approve_membership(DbOf(out), c, m, a, 0)
                before == clubs[c].members
                after == out.clubs[c].members
            IN  IF MembershipsOf(clubs[c], m) = {}
                THEN Refused(out, "Member not found") /\ DbOf(out) = Db
                ELSE /\ Accepted(out, "Membership approved successfully")
                     /\ out.users = users /\ out.events = events
                     /\ out.clubs = [clubs EXCEPT ![c].members = after]
                     /\ Len(after) = Len(before)
                     /\ \A i \in 1..Len(before) :
                           after[i] = IF before[i].userId = m
                                      THEN [before[i] EXCEPT !.status = ACTIVE]
                                      ELSE before[i]
                     /\ Accepted(again, "Membership approved successfully")
                     /\ DbOf(again) = DbOf(out)

\* a club where an approval has made one membership active, another request
\* is pending and a stored user has no membership
C2_Witness ==
    \E c \in ClubIds : \E u, v, w \in UserIds :
        /\ \E i \in MembershipsOf(clubs[c], u) : clubs[c].members[i].status = ACTIVE
        /\ \E i \in MembershipsOf(clubs[c], v) : clubs[c].members[i].status = PENDING
        /\ MembershipsOf(clubs[c], w) = {}
        /\ _can_approve_membership(users, clubs[c], w)

\* C3: every event holds at most one Registration per user and, when
\* maxParticipants > 0, at most maxParticipants of them; register_for_event
\* by a user not yet registered fails with "Event is full" and adds nothing
\* when the count equals maxParticipants > 0, succeeds and brings the count to
\* maxParticipants when the count is maxParticipants - 1; nobody is added to
\* a full event, and maxParticipants = 0 never causes a capacity failure.
C3_Registrations ==
    \A e \in EventIds :
        LET max == events[e].maxParticipants
            count == Len(events[e].registeredParticipants)
        IN  /\ \A u \in Ids(users) : Cardinality(RegistrationsOf(events[e], u)) <= 1
            /\ max > 0 => count <= max
            /\ \A u \in Ids(users) :
                  LET out == register_for_event(Db, e, u, 0)
                      new == RegistrationsOf(events[e], u) = {}
                  IN  /\ max > 0 /\ count = max =>
                          /\ ~out.result.ok /\ ~out.raised /\ DbOf(out) = Db
                          /\ new => Refused(out, "Event is full")
                      /\ max > 0 /\ count = max - 1 /\ new =>
                          /\ Accepted(out, "Successfully registered for event")
                          /\ Len(out.events[e].registeredParticipants) = max
                          /\ Cardinality(RegistrationsOf(out.events[e], u)) = 1
                      /\ max = 0 => out.result.msg # "Event is full"

\* a full event of capacity one that a stored user is not registered for
C3_Witness ==
    \E e \in EventIds : \E u \in UserIds :
        /\ events[e].maxParticipants = 1
        /\ Len(events[e].registeredParticipants) = 1
        /\ RegistrationsOf(events[e], u) = {}

\* C7: no two stored users share an email and no two share a student id;
\* register_user with the required fields and an email already stored fails
\* with "Email already exists", a student registration (student id and year
\* given, email not stored) with a student id already stored fails with
\* "Student ID already exists", and neither inserts a user.
C7_UniqueEmailAndStudentId ==
    /\ \A i, j \in UserIds :
          i # j =>
              /\ users[i].email # users[j].email
              /\ users[i].studentId # Absent => users[i].studentId # users[j].studentId
    /\ \A d \in UserDocs : \A salt \in Salts :
          LET out == register_user(Db, d, salt, 0)
              emailStored == \E i \in UserIds : users[i].email = d.email
              sidStored == \E i \in UserIds : users[i].studentId = d.studentId
          IN  UserRequired \subseteq d.fields =>
                  /\ emailStored => Refused(out, "Email already exists") /\ DbOf(out) = Db
                  /\ /\ ~emailStored
                     /\ d.role = STUDENT
                     /\ {"studentId", "year"} \subseteq d.fields
                     /\ sidStored
                     => Refused(out, "Student ID already exists") /\ DbOf(out) = Db

\* two students are stored and a registration with a new email repeats the
\* student id of one of them
C7_Witness ==
    /\ \E i, j \in UserIds : i # j /\ users[i].role = STUDENT /\ users[j].role = STUDENT
    /\ \E d \in UserDocs :
          /\ StudentFields \subseteq d.fields
          /\ d.role = STUDENT
          /\ \A i \in UserIds : users[i].email # d.email
          /\ \E i \in UserIds : users[i].studentId = d.studentId

\* the global role of an actor, "none" for an id that no stored user has
RoleOf(a) == IF a \in UserIds THEN users[a].role ELSE "none"

\* C4: _can_approve_membership is true if the actor's global role is faculty
\* or admin, otherwise true exactly when the actor has a Membership in the
\* club with status active and in-club role president, vice-president or
\* secretary, otherwise false (also for an actor without Membership or not
\* stored); approve_membership refuses exactly the actors it is false for.
C4_CanApproveMembership ==
    \A c \in ClubIds : \A a \in Ids(users) :
        LET officer == \E i \in MembershipsOf(clubs[c], a) :
                           /\ clubs[c].members[i].status = "active"
                           /\ clubs[c].members[i].role
                                  \in {"president", "vice-president", "secretary"}
            expected == IF RoleOf(a) \in {"faculty", "admin"} THEN TRUE ELSE officer
        IN  /\ _can_approve_membership(users, clubs[c], a) = expected
            /\ (MembershipsOf(clubs[c], a) = {} /\ RoleOf(a) \in {"student", "none"})
                   => ~_can_approve_membership(users, clubs[c], a)
            /\ \A m \in Ids(users) :
                   LET out == approve_membership(Db, c, m, a, 0)
                   IN  Refused(out, "Insufficient permissions") <=> ~expected

\* a student who is an active officer of the club (allowed) next to a pending
\* officer that is not stored (refused)
C4_Witness ==
    \E c \in ClubIds : \E a \in UserIds :
        /\ users[a].role = STUDENT
        /\ \E i \in MembershipsOf(clubs[c], a) :
               clubs[c].members[i].status = ACTIVE /\ clubs[c].members[i].role \in Officers
        /\ \E i \in MembershipsOf(clubs[c], 0) :
               clubs[c].members[i].status = PENDING /\ clubs[c].members[i].role \in Officers

\* C5: _can_create_event is true if the actor's global role is faculty or
\* admin, otherwise true exactly when the actor has a Membership in the club
\* with status active, whatever its in-club role; a student who is a plain
\* active "member" creates an event for the club, and create_event by a
\* student whose membership is pending fails with "Not authorized to create
\* events for this club".
C5_CanCreateEvent ==
    \A c \in ClubIds : \A a \in Ids(users) :
        LET active == \E i \in MembershipsOf(clubs[c], a) :
                          clubs[c].members[i].status = "active"
            expected == IF RoleOf(a) \in {"faculty", "admin"} THEN TRUE ELSE active
        IN  /\ _can_create_event(users, clubs[c], a) = expected
            /\ \A d \in EventDocs({c}) :
                  LET out == create_event(Db, d, a, 0, TRUE)
                      id == Len(events) + 1
                  IN  (EventRequired \subseteq d.fields /\ d.dateParses
                       /\ RoleOf(a) = "student" /\ clubs[c].isActive) =>
                          /\ (\E i \in MembershipsOf(clubs[c], a) :
                                  /\ clubs[c].members[i].status = "active"
                                  /\ clubs[c].members[i].role = "member")
                             => /\ Accepted(out, "Event created successfully")
                                /\ Len(out.events) = id
                                /\ out.events[id].organizer = a
                                /\ out.events[id].clubId = c
                          /\ (/\ MembershipsOf(clubs[c], a) # {}
                              /\ \A i \in MembershipsOf(clubs[c], a) :
                                     clubs[c].members[i].status = "pending")
                             => /\ Refused(out, "Not authorized to create events for this club")
                                /\ DbOf(out) = Db

\* an event organized by a student whose only membership in the owning club
\* is an active plain "member" one
C5_Witness ==
    \E e \in EventIds :
        LET a == events[e].organizer
            c == events[e].clubId
        IN  /\ RoleOf(a) = STUDENT
            /\ MembershipsOf(clubs[c], a) # {}
            /\ \A i \in MembershipsOf(clubs[c], a) :
                   clubs[c].members[i].status = ACTIVE /\ clubs[c].members[i].role = "member"

\* C6: approve_event is authorized by global role only: every approved event
\* records as approver a stored user whose role is faculty or admin; a call
\* by anyone else (a student, also an active officer of the owning club, or
\* an id that is not stored) fails with "Unauthorized to approve events" and
\* changes nothing, and a call by a faculty or admin user approves the event.
C6_ApproveEventByRole ==
    /\ \A e \in EventIds :
          events[e].status = EVENT_APPROVED =>
              /\ Len(events[e].approvedBy) = 1
              /\ RoleOf(events[e].approvedBy[1]) \in {"faculty", "admin"}
    /\ \A e \in EventIds : \A a \in Ids(users) : \A d \in ApproverData :
          LET out == approve_event(Db, e, d, a, 0, TRUE)
          IN  IF RoleOf(a) \in {"faculty", "admin"}
              THEN /\ Accepted(out, "Event approved successfully")
                   /\ out.events[e].status = EVENT_APPROVED
                   /\ out.events[e].approvedBy = <<a>>
              ELSE Refused(out, "Unauthorized to approve events") /\ DbOf(out) = Db

\* an approved event of a club in which a student is an active officer
C6_Witness ==
    \E e \in EventIds : \E a \in UserIds :
        /\ events[e].status = EVENT_APPROVED
        /\ users[a].role = STUDENT
        /\ \E i \in MembershipsOf(clubs[events[e].clubId], a) :
               /\ clubs[events[e].clubId].members[i].status = ACTIVE
               /\ clubs[events[e].clubId].members[i].role \in Officers

\* the status of the one membership of user_id in a club, "none" without one
StatusIn(club, user_id) ==
    IF Cardinality(MembershipsOf(club, user_id)) = 1
    THEN club.members[CHOOSE i \in MembershipsOf(club, user_id) : TRUE].status
    ELSE "none"

\* C8: from a club C and an event E with maxParticipants = 1 and no
\* registrations: registering student A succeeds, login of A succeeds,
\* join_club(C, A) succeeds and leaves A's membership pending,
\* approve_membership(C, A) by faculty F succeeds and leaves it active,
\* register_for_event(E, A) succeeds, and register_for_event(E, B) by a
\* second student B then fails with exactly "Event is full", leaving E with
\* A as its only registration.
C8_EndToEnd ==
    \A c \in ClubIds : \A e \in EventIds : \A f, b \in UserIds :
    \A docA \in FewUserDocs : \A salt \in Salts :
        (/\ clubs[c].isActive
         /\ events[e].maxParticipants = 1
         /\ events[e].registeredParticipants = <<>>
         /\ users[f].role = FACULTY
         /\ users[b].role = STUDENT
         /\ docA.role = STUDENT
         /\ \A i \in UserIds : users[i].email # docA.email
                                /\ users[i].studentId # docA.studentId)
        => LET a == Len(users) + 1
               s1 == register_user(Db, docA, salt, 0)
               s2 == login_user(DbOf(s1), Login({"email", "password"}, docA.email,
                                                docA.password), 0)
               s3 == join_club(DbOf(s2), c, a, 0, TRUE)
               s4 == approve_membership(DbOf(s3), c, a, f, 0)
               s5 == register_for_event(DbOf(s4), e, a, 0)
               s6 == register_for_event(DbOf(s5), e, b, 0)
           IN  /\ Accepted(s1, "User registered successfully")
               /\ s1.users[a].email = docA.email /\ s1.users[a].role = STUDENT
               /\ Accepted(s2, "Login successful")
               /\ s2.result.data = <<[id |-> a, email |-> docA.email, role |-> STUDENT]>>
               /\ Accepted(s3, "Membership request sent successfully")
               /\ StatusIn(s3.clubs[c], a) = PENDING
               /\ Accepted(s4, "Membership approved successfully")
               /\ StatusIn(s4.clubs[c], a) = ACTIVE
               /\ Accepted(s5, "Successfully registered for event")
               /\ s5.events[e].registeredParticipants = <<[userId |-> a]>>
               /\ Refused(s6, "Event is full")
               /\ DbOf(s6) = DbOf(s5)
               /\ s6.events[e].registeredParticipants = <<[userId |-> a]>>

\* the state the scenario ends in: student A is an active member of the club
\* and the only registration of the event of capacity one, and a second
\* stored student is refused with "Event is full"
C8_Witness ==
    \E c \in ClubIds : \E e \in EventIds : \E a, b, f \in UserIds :
        /\ users[a].role = STUDENT /\ users[b].role = STUDENT /\ a # b
        /\ users[f].role = FACULTY
        /\ StatusIn(clubs[c], a) = ACTIVE
        /\ events[e].maxParticipants = 1
        /\ events[e].registeredParticipants = <<[userId |-> a]>>
        /\ Refused(register_for_event(Db, e, b, 0), "Event is full")

\* two outcomes that return the same and leave the same store
SameOutcome(x, y) ==
    /\ x.result = y.result
    /\ x.raised = y.raised
    /\ DbOf(x) = DbOf(y)

\* C9: a failing notification publish never fails the parent operation: for
\* create_club, join_club, create_event and approve_event, the returned
\* result and the resulting users, clubs and events are the same whether the
\* channel's publish succeeds or raises.
C9_PublishFailureIsSwallowed ==
    /\ \A d \in ClubDocs : \A u \in Ids(users) :
          SameOutcome(create_club(Db, d, u, 0, TRUE), create_club(Db, d, u, 0, FALSE))
    /\ \A c \in Ids(clubs) : \A u \in Ids(users) :
          SameOutcome(join_club(Db, c, u, 0, TRUE), join_club(Db, c, u, 0, FALSE))
    /\ \A d \in EventDocs(Ids(clubs)) : \A u \in Ids(users) :
          SameOutcome(create_event(Db, d, u, 0, TRUE), create_event(Db, d, u, 0, FALSE))
    /\ \A e \in Ids(events) : \A d \in ApproverData : \A u \in Ids(users) :
          SameOutcome(approve_event(Db, e, d, u, 0, TRUE),
                      approve_event(Db, e, d, u, 0, FALSE))

\* a club, a membership of a stored user, an event and its approval are all
\* in the store although none of the four notifications reached the channel
C9_Witness ==
    /\ redis = {}
    /\ \E c \in ClubIds : \E u \in UserIds : MembershipsOf(clubs[c], u) # {}
    /\ \E e \in EventIds : events[e].status = EVENT_APPROVED

\* an outcome that is a returned (flag, payload): nothing raised, and a
\* failure carries its error and no data
Reported(out) ==
    /\ ~out.raised
    /\ out.result.ok \in BOOLEAN
    /\ ~out.result.ok => out.result.msg # "" /\ out.result.data = <<>>
    /\ out.result.ok => out.result.cause = ""

\* run[k] is the outcome of one call when its k-th store call raises (0: none,
\* and so is a k beyond the calls the handler issues)
StoreFailureReported(run) ==
    LET sound == run[0] IN
    \A k \in DOMAIN run :
        LET out == run[k] IN
        /\ Reported(out)
        /\ k \in 1..sound.calls =>
               /\ ~out.result.ok
               /\ out.result.cause = "StoreError"
               /\ out.calls = k
        /\ k > sound.calls => out = sound

\* the store call that raises: none, or any up to one beyond the most a
\* handler issues in a store within the bounds
Faults == 0..6

\* C10: every public operation returns a (success flag, payload) result for
\* every input and every store failure: no exception leaves the handler, a
\* store call that raises makes the operation return (False, {"error": ...})
\* and is the last store call the operation issues (nothing is retried).
C10_EveryOperationReturns ==
    /\ \A d \in UserDocs : \A salt \in Salts :
          StoreFailureReported([k \in Faults |-> register_user(Db, d, salt, k)])
    /\ \A d \in Credentials :
          StoreFailureReported([k \in Faults |-> login_user(Db, d, k)])
    /\ \A u \in Ids(users) :
          StoreFailureReported([k \in Faults |-> get_user_profile(Db, u, k)])
    /\ \A d \in ClubDocs : \A u \in Ids(users) :
          StoreFailureReported([k \in Faults |-> create_club(Db, d, u, k, TRUE)])
    /\ \A c \in Ids(clubs) : \A u \in Ids(users) :
          StoreFailureReported([k \in Faults |-> join_club(Db, c, u, k, TRUE)])
    /\ \A c \in Ids(clubs) : \A m, a \in Ids(users) :
          StoreFailureReported([k \in Faults |-> approve_membership(Db, c, m, a, k)])
    /\ \A f \in ClubFilters :
          StoreFailureReported([k \in Faults |-> get_clubs(Db, f, k)])
    /\ \A d \in EventDocs(Ids(clubs)) : \A u \in Ids(users) :
          StoreFailureReported([k \in Faults |-> create_event(Db, d, u, k, TRUE)])
    /\ \A e \in Ids(events) : \A u \in Ids(users) :
          StoreFailureReported([k \in Faults |-> register_for_event(Db, e, u, k)])
    /\ \A e \in Ids(events) : \A d \in ApproverData : \A u \in Ids(users) :
          StoreFailureReported([k \in Faults |-> approve_event(Db, e, d, u, k, TRUE)])
    /\ \A f \in EventFilters :
          StoreFailureReported([k \in Faults |-> get_events(Db, f, k)])
    /\ StoreFailureReported([k \in Faults |-> get_dashboard_stats(Db, k)])
    /\ StoreFailureReported([k \in Faults |-> get_pending_approvals(Db, k)])

\* a store left by a join_club whose third store call raised: the membership
\* of a stored user is in the club and the club is not among the user's clubs
C10_Witness ==
    \E c \in ClubIds : \E u \in UserIds :
        /\ MembershipsOf(clubs[c], u) # {}
        /\ users[u].clubs = <<>>

\* C11: login_user with an email no stored user has, with the email of a
\* deactivated user or with a wrong password fails with the same error
\* "Invalid credentials", returns no token and changes nothing; a token is
\* returned only when the email matches an active user and the password
\* verifies (and then it is).
C11_InvalidCredentialsUniform ==
    \A d \in Credentials :
        LET out == login_user(Db, d, 0)
            id == FindUserByEmail(users, d.email)
            complete == {"email", "password"} \subseteq d.fields
            valid == /\ complete
                     /\ id # 0
                     /\ users[id].isActive
                     /\ users[id].password = hashpw(d.password, users[id].password.salt)
        IN  /\ DbOf(out) = Db
            /\ ~out.raised
            /\ out.result.data # <<>> => valid
            /\ complete /\ ~valid => Refused(out, "Invalid credentials")
            /\ valid => /\ Accepted(out, "Login successful")
                        /\ out.result.data =
                               <<[id |-> id, email |-> d.email, role |-> users[id].role]>>

\* a deactivated account whose own password is presented, next to an active
\* account and an email that nobody has
C11_Witness ==
    /\ \E i \in UserIds : \E d \in Credentials :
          /\ ~users[i].isActive
          /\ d.email = users[i].email
          /\ "password" \in d.fields
          /\ checkpw(d.password, users[i].password)
    /\ \E i \in UserIds : users[i].isActive
    /\ \E d \in Credentials :
          "email" \in d.fields /\ \A i \in UserIds : users[i].email # d.email

\* C13: every stored user's role is one of student, faculty, admin.
C13_StoredRolesAreUserRoles ==
    \A i \in UserIds : users[i].role \in UserRole

\* C12: club names are unique and every club's faculty coordinator is a
\* stored user whose role is faculty or admin; create_club by a creator who
\* is unknown or not faculty/admin fails with "Unauthorized to create clubs",
\* create_club (by an authorized creator, with the required fields) with a
\* name already stored fails with "Club name already exists", and neither
\* inserts a club; a successful create_club appends one active club with
\* empty member and event lists and the creator as coordinator.
C12_ClubRegistry ==
    /\ \A i, j \in ClubIds : i # j => clubs[i].name # clubs[j].name
    /\ \A c \in ClubIds : RoleOf(clubs[c].facultyCoordinator) \in {"faculty", "admin"}
    /\ \A d \in ClubDocs : \A u \in Ids(users) :
          LET out == create_club(Db, d, u, 0, TRUE)
              authorized == RoleOf(u) \in {"faculty", "admin"}
              complete == ClubRequired \subseteq d.fields
              stored == \E c \in ClubIds : clubs[c].name = d.name
          IN  /\ ~authorized =>
                     Refused(out, "Unauthorized to create clubs") /\ DbOf(out) = Db
              /\ authorized /\ complete /\ stored =>
                     Refused(out, "Club name already exists") /\ DbOf(out) = Db
              /\ out.result.ok =>
                     /\ authorized /\ complete /\ ~stored
                     /\ out.users = users /\ out.events = events
                     /\ out.clubs = Append(clubs,
                            [name |-> d.name, category |-> d.category,
                             facultyCoordinator |-> u, isActive |-> TRUE,
                             members |-> <<>>, events |-> <<>>])
              /\ authorized /\ complete /\ ~stored =>
                     Accepted(out, "Club created successfully")

\* two clubs are stored, one created by a faculty and one by an admin user,
\* and a student is stored as well
C12_Witness ==
    /\ \E i, j \in ClubIds :
          /\ RoleOf(clubs[i].facultyCoordinator) = FACULTY
          /\ RoleOf(clubs[j].facultyCoordinator) = ADMIN
    /\ \E u \in UserIds : users[u].role = STUDENT

\* C14: a successful approve_event sets status to approved and records the
\* approver's id, the approval notes and the approved budget (0 when none is
\* given), leaving the registrations and all other event fields unchanged;
\* it applies only to a pending event, so approve_event on an already
\* approved event does not overwrite the recorded approver, notes or
\* approved budget.
C14_ApproveOnlyPending ==
    \A e \in EventIds : \A a \in Ids(users) : \A d \in ApproverData :
        LET out == approve_event(Db, e, d, a, 0, TRUE)
            new == out.events[e]
        IN  /\ out.result.ok =>
                /\ new.status = EVENT_APPROVED
                /\ \A f \in DOMAIN events[e] \ {"status", "approvedBy", "approvalNotes",
                                                "budget"} : new[f] = events[e][f]
                /\ new.budget.requested = events[e].budget.requested
            /\ out.result.ok /\ events[e].status = EVENT_PENDING =>
                /\ new.approvedBy = <<a>>
                /\ new.approvalNotes =
                       IF "approvalNotes" \in d.fields THEN d.approvalNotes ELSE ""
                /\ new.budget.approved =
                       IF "approvedBudget" \in d.fields THEN d.approvedBudget ELSE 0
            /\ events[e].status = EVENT_APPROVED =>
                /\ new.approvedBy = events[e].approvedBy
                /\ new.approvalNotes = events[e].approvalNotes
                /\ new.budget.approved = events[e].budget.approved

\* how often an event id occurs in a club's event list
Listed(club, e) == Cardinality({i \in 1..Len(club.events) : club.events[i] = e})

Approving == {t \in inflight : t.op = "approve_membership"}

\* C16: approve_membership's read of the club and its whole-document replace
\* are not atomic with respect to other club mutations: whatever a join_club
\* or a create_event that returned in between has appended to the club (a
\* membership, an event id) is missing from the club once the replace_one is
\* done, although both calls return success.
C16_LostUpdate ==
    \A t \in Approving :
        LET after == ReplaceOne(clubs, t.id, t.club[1])[t.id]
            read == t.club[1]
        IN  /\ \A u \in Ids(users) :
                  MembershipsOf(read, u) = {} => MembershipsOf(after, u) = {}
            /\ \A e \in EventIds : Listed(read, e) = 0 => Listed(after, e) = 0
            /\ \A i \in 1..Len(after.members) :
                  after.members[i].userId = t.user_id => after.members[i].status = ACTIVE

\* no call is in flight; the approval of the first student has returned, the
\* second student's join_club has returned success (the club is among the
\* student's clubs) and an event of the club is stored, yet the club holds
\* neither the second student's membership nor the event's id
C16_Witness ==
    /\ inflight = {}
    /\ \E c \in ClubIds : \E u \in UserIds :
          /\ StatusIn(clubs[c], 2) = ACTIVE
          /\ \E i \in 1..Len(users[u].clubs) : users[u].clubs[i].clubId = c
          /\ MembershipsOf(clubs[c], u) = {}
          /\ \E e \in EventIds : events[e].clubId = c /\ Listed(clubs[c], e) = 0

\* C17: when register_for_event calls on the same event interleave, each
\* call's find_one and its $push being separate atomic store steps, the event
\* never holds more than maxParticipants registrations (when maxParticipants
\* > 0) and never two registrations of the same user.
C17_RegistrationsUnderConcurrency ==
    \A e \in EventIds :
        /\ events[e].maxParticipants > 0 =>
               Len(events[e].registeredParticipants) <= events[e].maxParticipants
        /\ \A u \in Ids(users) : Cardinality(RegistrationsOf(events[e], u)) <= 1

\* a failure result leaves the three collections as they were
Atomic(out) == ~out.result.ok => DbOf(out) = Db

\* C18: whenever register_user, create_club, join_club, approve_membership,
\* create_event, register_for_event or approve_event returns a failure
\* result, the users, clubs and events collections are exactly as they were
\* before the call; in particular join_club and create_event never report
\* failure after having appended a membership or inserted an event.
C18_FailureAtomicity ==
    /\ \A d \in UserDocs : \A salt \in Salts : Atomic(register_user(Db, d, salt, 0))
    /\ \A d \in ClubDocs : \A u \in Ids(users) : Atomic(create_club(Db, d, u, 0, TRUE))
    /\ \A c \in Ids(clubs) : \A u \in Ids(users) : Atomic(join_club(Db, c, u, 0, TRUE))
    /\ \A c \in Ids(clubs) : \A m, a \in Ids(users) :
          Atomic(approve_membership(Db, c, m, a, 0))
    /\ \A d \in EventDocs(Ids(clubs)) : \A u \in Ids(users) :
          Atomic(create_event(Db, d, u, 0, TRUE))
    /\ \A e \in Ids(events) : \A u \in Ids(users) : Atomic(register_for_event(Db, e, u, 0))
    /\ \A e \in Ids(events) : \A d \in ApproverData : \A u \in Ids(users) :
          Atomic(approve_event(Db, e, d, u, 0, TRUE))

\* C19: every Membership in a club, every Registration in an event and every
\* event's organizer refer to a stored user; join_club and
\* register_for_event called with an id that matches no stored user add
\* nothing.
C19_UserReferences ==
    /\ \A c \in ClubIds : \A i \in 1..Len(clubs[c].members) :
          clubs[c].members[i].userId \in UserIds
    /\ \A e \in EventIds :
          /\ events[e].organizer \in UserIds
          /\ \A i \in 1..Len(events[e].registeredParticipants) :
                events[e].registeredParticipants[i].userId \in UserIds
    /\ \A c \in Ids(clubs) : DbOf(join_club(Db, c, 0, 0, TRUE)) = Db
    /\ \A e \in Ids(events) : DbOf(register_for_event(Db, e, 0, 0)) = Db

\* the (club, user) pairs with an active membership
ActiveMemberships(cs) ==
    UNION { { <<c, cs[c].members[i].userId>> :
                  i \in {j \in 1..Len(cs[c].members) : cs[c].members[j].status = ACTIVE} } :
            c \in 1..Len(cs) }

\* C20: in every state reachable through the public operations every
\* Membership has in-club role "member" and status pending or active;
\* approve_membership succeeds only for an approver whose global role is
\* faculty or admin (never for a student), and no other operation makes a
\* membership active, so every active membership was approved by a faculty
\* or admin user.
C20_NoOfficer ==
    /\ \A c \in ClubIds : \A i \in 1..Len(clubs[c].members) :
          /\ clubs[c].members[i].role = "member"
          /\ clubs[c].members[i].status \in {PENDING, ACTIVE}
    /\ \A c \in Ids(clubs) : \A m, a \in Ids(users) :
          LET out == approve_membership(Db, c, m, a, 0)
          IN  /\ out.result.ok => RoleOf(a) \in {"faculty", "admin"}
              /\ RoleOf(a) \notin {"faculty", "admin"} /\ c \in ClubIds =>
                     Refused(out, "Insufficient permissions")
              /\ ActiveMemberships(out.clubs) \subseteq
                     ActiveMemberships(clubs) \cup (IF out.result.ok THEN {<<c, m>>} ELSE {})
    /\ \A d \in UserDocs : \A salt \in Salts :
          ActiveMemberships(register_user(Db, d, salt, 0).clubs) = ActiveMemberships(clubs)
    /\ \A d \in ClubDocs : \A u \in Ids(users) :
          ActiveMemberships(create_club(Db, d, u, 0, TRUE).clubs) = ActiveMemberships(clubs)
    /\ \A c \in Ids(clubs) : \A u \in Ids(users) :
          ActiveMemberships(join_club(Db, c, u, 0, TRUE).clubs) = ActiveMemberships(clubs)
    /\ \A d \in EventDocs(Ids(clubs)) : \A u \in Ids(users) :
          ActiveMemberships(create_event(Db, d, u, 0, TRUE).clubs) = ActiveMemberships(clubs)
    /\ \A e \in Ids(events) : \A u \in Ids(users) :
          ActiveMemberships(register_for_event(Db, e, u, 0).clubs) = ActiveMemberships(clubs)
    /\ \A e \in Ids(events) : \A d \in ApproverData : \A u \in Ids(users) :
          ActiveMemberships(approve_event(Db, e, d, u, 0, TRUE).clubs)
              = ActiveMemberships(clubs)

\* a student who is an active member of a club with a pending request of
\* another student, which the first student is refused to approve
C20_Witness ==
    \E c \in ClubIds : \E u, v \in UserIds :
        /\ users[u].role = STUDENT /\ users[v].role = STUDENT
        /\ StatusIn(clubs[c], u) = ACTIVE
        /\ StatusIn(clubs[c], v) = PENDING
        /\ Refused(approve_membership(Db, c, v, u, 0), "Insufficient permissions")

\* the (user, club) pairs of the references in the users' clubs lists, and
\* of the memberships that the clubs' member lists hold for stored users
UserSide(us) ==
    UNION { { <<u, us[u].clubs[i].clubId>> : i \in 1..Len(us[u].clubs) } :
            u \in 1..Len(us) }

ClubSide(cs, us) ==
    UNION { { <<cs[c].members[i].userId, c>> :
                  i \in {j \in 1..Len(cs[c].members) :
                             cs[c].members[j].userId \in 1..Len(us)} } :
            c \in 1..Len(cs) }

RefsTo(user, club_id) == {i \in 1..Len(user.clubs) : user.clubs[i].clubId = club_id}

SidesUnchanged(out) ==
    /\ UserSide(out.users) = UserSide(users)
    /\ ClubSide(out.clubs, out.users) = ClubSide(clubs, users)

Recast(db, e, s, u, ms, refs) ==
    LET c == FindById(db.clubs, db.events[e].clubId)
        v == FindById(db.users, u)
    IN  [users |-> IF v = 0 THEN db.users ELSE [db.users EXCEPT ![v].clubs = refs],
         clubs |-> IF c = 0 THEN db.clubs ELSE [db.clubs EXCEPT ![c].members = ms],
         events |-> [db.events EXCEPT ![e].status = s]]

\* u without Membership, with a pending one and with an active one
MemberLists(u) ==
    {<<>>} \cup {<<[userId |-> u, role |-> "member", status |-> st]>> :
                    st \in {PENDING, ACTIVE}}

RefLists(c) == {<<>>, <<[clubId |-> c, role |-> "member"]>>}

\* C22: register_for_event decides on the event's registrations and capacity
\* alone: for every stored event and every user id the call succeeds exactly
\* when the user is not registered and the event is not full, and it returns
\* the same result and leaves the same registrations whatever the event's
\* status is and whether or not the user has a Membership in the club that
\* owns the event or a reference to it.
C22_RegistrationIgnoresApproval ==
    \A e \in EventIds : \A u \in Ids(users) :
        LET out == register_for_event(Db, e, u, 0)
        IN  /\ out.result.ok <=> ~IsRegistered(events[e], u) /\ ~IsFull(events[e])
            /\ \A s \in EventStatus : \A ms \in MemberLists(u) :
                \A refs \in RefLists(events[e].clubId) :
                   LET db == Recast(Db, e, s, u, ms, refs)
                       alt == register_for_event(db, e, u, 0)
                   IN  /\ alt.result = out.result
                       /\ alt.raised = out.raised
                       /\ alt.events[e].registeredParticipants
                              = out.events[e].registeredParticipants
                       /\ alt.events[e].status = s
                       /\ alt.users = db.users
                       /\ alt.clubs = db.clubs

\* an event that is still pending and holds the registration of a stored
\* user who has no Membership in the club that owns it, while an active
\* member of that club can still register for it
C22_Witness ==
    \E e \in EventIds : \E u, v \in UserIds :
        /\ events[e].status = EVENT_PENDING
        /\ events[e].clubId \in ClubIds
        /\ MembershipsOf(clubs[events[e].clubId], u) = {}
        /\ RegistrationsOf(events[e], u) # {}
        /\ StatusIn(clubs[events[e].clubId], v) = ACTIVE
        /\ Accepted(register_for_event(Db, e, v, 0), "Successfully registered for event")

\* C23: a membership that approve_membership has made active (the call
\* returns success right after its replace_one) is active in every later
\* state, also when other approve_membership calls on the club run their
\* find_one and replace_one in between: no step takes the active membership
\* of a stored user out of the active memberships, neither back to pending
\* nor out of the member list.
C23_ApprovalIsDurable ==
    [][\A p \in ActiveMemberships(clubs) :
          p[2] \in UserIds => p \in ActiveMemberships(clubs')]_vars

====
